---- MODULE Spec2Model ----
(***************************************************************************)
(* A model of malignius: the Manifest / Persist capabilities, the          *)
(* Associations registry, the orchestration functions manifest,            *)
(* manifest_with, persist, persist_with and association (src/lib.rs),      *)
(* the entity types and SQLite schema of its tests, and Sequence           *)
(* (src/sequence.rs).                                                      *)
(***************************************************************************)
EXTENDS Integers, Sequences, FiniteSets, TLC

VARIABLES
    conns,      \* the stores: for each connection handle, its tables
    stack,      \* the active persist_with invocations, outermost first
    call,       \* the orchestration call in progress or last made
    ret,        \* what that call gave back to its caller
    log,        \* the store writes attempted since that call began, in order
    sequences,  \* the counter of each Sequence
    seqcall,    \* the Sequence call last made
    seqret,     \* the value that call returned
    produced    \* for each Sequence, every value it has produced, in order

vars == <<conns, stack, call, ret, log, sequences, seqcall, seqret, produced>>

coreVars == <<conns, stack, call, ret, log>>
seqVars == <<sequences, seqcall, seqret, produced>>

(***************************************************************************)
(* Bounds                                                                  *)
(***************************************************************************)
MaxRows == 3        \* no orchestration call starts on stores holding this many rows
MaxCounter == 6     \* a Sequence is not advanced beyond this counter
MaxTake == 3        \* largest n passed to take(n)
MaxDepth == 5       \* manifesting does not nest deeper than this many invocations
MaxDrawn == 3       \* no call on Sequence-backed types starts at this counter

(***************************************************************************)
(* Option<T>                                                               *)
(***************************************************************************)
None == <<>>
Some(v) == <<v>>
is_some(opt) == opt # None
unwrap(opt) == opt[1]
\* Option::unwrap_or: the supplied value if any, else the default
unwrap_or(opt, default) == IF is_some(opt) THEN unwrap(opt) ELSE default

(***************************************************************************)
(* Entity types of the tests, their Overrides (derive_builder builders:    *)
(* every field an Option) and the values the model supplies as overrides   *)
(***************************************************************************)
EntityTypes == {"Movie", "Author", "Post", "Comment"}

OtherId == 2
OtherYear == 1999

MovieOverrides ==
    [title : {None, Some("The Social Network")}, year : {None, Some(OtherYear)}]
AuthorOverrides ==
    [id : {None, Some(OtherId)}, name : {None, Some("Author 2")}]
PostOverrides ==
    [id : {None, Some(OtherId)}, author_id : {None, Some(OtherId)},
     title : {None, Some("Post 2")}]
CommentOverrides ==
    [id : {None, Some(OtherId)}, post_id : {None, Some(OtherId)},
     username : {None, Some("user2")}]

Overrides(T) ==
    CASE T = "Movie" -> MovieOverrides
      [] T = "Author" -> AuthorOverrides
      [] T = "Post" -> PostOverrides
      [] T = "Comment" -> CommentOverrides

\* Overrides::default(): a builder with no field set
OverridesDefault(T) ==
    CASE T = "Movie" -> [title |-> None, year |-> None]
      [] T = "Author" -> [id |-> None, name |-> None]
      [] T = "Post" -> [id |-> None, author_id |-> None, title |-> None]
      [] T = "Comment" -> [id |-> None, post_id |-> None, username |-> None]

(***************************************************************************)
(* Associations: the registry. A pending operation is the boxed closure    *)
(* association::<T> pushed; the closure captures nothing but T, so it is   *)
(* represented by its entity_type tag.                                     *)
(***************************************************************************)
AssociationsNew == <<>>

AnyAssociation(T) == [entity_type |-> T]

\* a faulty Associations::persist: inserts at the front
AssociationsPersistFront(associations, T) == <<AnyAssociation(T)>> \o associations

\* Associations::persist: push one pending operation at the end
AssociationsPersist(associations, T) == Append(associations, AnyAssociation(T))

RECURSIVE Manifest(_, _)

\* manifest_with::<T>(overrides): T::manifest, the registry is dropped
manifest_with(T, overrides) == Manifest(T, overrides).entity

\* manifest::<T>()
manifest(T) == manifest_with(T, OverridesDefault(T))

\* a faulty association(): manifests the dependency, registers nothing
associationUnregistered(T, associations) ==
    [entity |-> manifest(T), associations |-> associations]

\* association::<T>(&mut associations): the dependency manifested with
\* default overrides, and the registry with its deferred persist appended
association(T, associations) ==
    [entity |-> manifest(T), associations |-> AssociationsPersist(associations, T)]

MovieManifest(overrides) ==
    [entity |-> [title |-> unwrap_or(overrides.title, "Inception"),
                 year |-> unwrap_or(overrides.year, 2010)],
     associations |-> AssociationsNew]

\* a faulty Author::manifest: the default id is taken from the store's row
\* count, so it depends on what was persisted before
AuthorManifestCounting(overrides) ==
    [entity |-> [id |-> unwrap_or(overrides.id, Cardinality(conns["c1"].author) + 1),
                 name |-> unwrap_or(overrides.name, "Author 1")],
     associations |-> AssociationsNew]

AuthorManifest(overrides) ==
    [entity |-> [id |-> unwrap_or(overrides.id, 1),
                 name |-> unwrap_or(overrides.name, "Author 1")],
     associations |-> AssociationsNew]

\* a faulty Post::manifest: unwrap_or in place of unwrap_or_else, so the
\* association is evaluated (and registered) whatever the overrides hold
PostManifestEager(overrides) ==
    LET associations == AssociationsNew
        assoc == association("Author", associations)
    IN  [entity |-> [id |-> unwrap_or(overrides.id, 1),
                     author_id |-> unwrap_or(overrides.author_id, assoc.entity.id),
                     title |-> unwrap_or(overrides.title, "Post 1")],
         associations |-> assoc.associations]

PostManifest(overrides) ==
    LET associations == AssociationsNew
        \* unwrap_or_else: association() runs only when author_id is None
        assoc == IF is_some(overrides.author_id)
                 THEN [id |-> unwrap(overrides.author_id), associations |-> associations]
                 ELSE LET a == association("Author", associations)
                      IN  [id |-> a.entity.id, associations |-> a.associations]
    IN  [entity |-> [id |-> unwrap_or(overrides.id, 1),
                     author_id |-> assoc.id,
                     title |-> unwrap_or(overrides.title, "Post 1")],
         associations |-> assoc.associations]

\* a faulty Comment::manifest: unwrap_or in place of unwrap_or_else
CommentManifestEager(overrides) ==
    LET associations == AssociationsNew
        assoc == association("Post", associations)
    IN  [entity |-> [id |-> unwrap_or(overrides.id, 1),
                     post_id |-> unwrap_or(overrides.post_id, assoc.entity.id),
                     username |-> unwrap_or(overrides.username, "user1")],
         associations |-> assoc.associations]

\* a faulty Comment::manifest: registers the Post but embeds another key
CommentManifestWrongKey(overrides) ==
    LET associations == AssociationsNew
        assoc == IF is_some(overrides.post_id)
                 THEN [id |-> unwrap(overrides.post_id), associations |-> associations]
                 ELSE LET a == association("Post", associations)
                      IN  [id |-> a.entity.id + 1, associations |-> a.associations]
    IN  [entity |-> [id |-> unwrap_or(overrides.id, 1),
                     post_id |-> assoc.id,
                     username |-> unwrap_or(overrides.username, "user1")],
         associations |-> assoc.associations]

CommentManifest(overrides) ==
    LET associations == AssociationsNew
        assoc == IF is_some(overrides.post_id)
                 THEN [id |-> unwrap(overrides.post_id), associations |-> associations]
                 ELSE LET a == association("Post", associations)
                      IN  [id |-> a.entity.id, associations |-> a.associations]
    IN  [entity |-> [id |-> unwrap_or(overrides.id, 1),
                     post_id |-> assoc.id,
                     username |-> unwrap_or(overrides.username, "user1")],
         associations |-> assoc.associations]

\* <T as Manifest>::manifest(overrides) -> (Self, Associations)
Manifest(T, overrides) ==
    CASE T = "Movie" -> MovieManifest(overrides)
      [] T = "Author" -> AuthorManifest(overrides)
      [] T = "Post" -> PostManifest(overrides)
      [] T = "Comment" -> CommentManifest(overrides)

(***************************************************************************)
(* Result<T, E>                                                            *)
(***************************************************************************)
Ok(v) == [kind |-> "Ok", value |-> v]
Err(e) == [kind |-> "Err", value |-> e]
is_err(res) == res.kind = "Err"

(***************************************************************************)
(* The store: SQLite connections with the schema the tests create          *)
(* (foreign_keys on). A table is the set of its rows.                      *)
(***************************************************************************)
Conns == {"c1", "c2"}

EmptyTables == [movie |-> {}, author |-> {}, post |-> {}, comment |-> {}]

TotalRows(cs) ==
    LET rows(c) == Cardinality(cs[c].movie) + Cardinality(cs[c].author)
                   + Cardinality(cs[c].post) + Cardinality(cs[c].comment)
    IN  rows("c1") + rows("c2")

\* integer primary key left unset by the insert: SQLite assigns max(rowid)+1
NextRowid(rows) ==
    IF rows = {} THEN 1
    ELSE (CHOOSE m \in {r.id : r \in rows} : \A r \in rows : r.id <= m) + 1

\* Each capability returns the Result it gives its caller and the tables
\* the statement leaves behind (a failed insert changes nothing).
\* <Movie as Persist>::persist
MoviePersist(tables, movie) ==
    IF \E r \in tables.movie : r.title = movie.title
    THEN [result |-> Err("UNIQUE constraint failed: movie.title"), tables |-> tables]
    ELSE [result |-> Ok(movie),
          tables |-> [tables EXCEPT !.movie = @ \cup
                        {[id |-> NextRowid(tables.movie), title |-> movie.title,
                          year |-> movie.year]}]]

\* <Author as Persist>::persist
AuthorPersist(tables, author) ==
    IF \E r \in tables.author : r.id = author.id
    THEN [result |-> Err("UNIQUE constraint failed: author.id"), tables |-> tables]
    ELSE IF \E r \in tables.author : r.name = author.name
    THEN [result |-> Err("UNIQUE constraint failed: author.name"), tables |-> tables]
    ELSE [result |-> Ok(author), tables |-> [tables EXCEPT !.author = @ \cup {author}]]

\* <Post as Persist>::persist
PostPersist(tables, post) ==
    IF \E r \in tables.post : r.id = post.id
    THEN [result |-> Err("UNIQUE constraint failed: post.id"), tables |-> tables]
    ELSE IF ~ \E a \in tables.author : a.id = post.author_id
    THEN [result |-> Err("FOREIGN KEY constraint failed"), tables |-> tables]
    ELSE [result |-> Ok(post), tables |-> [tables EXCEPT !.post = @ \cup {post}]]

\* <Comment as Persist>::persist
CommentPersist(tables, comment) ==
    IF \E r \in tables.comment : r.id = comment.id
    THEN [result |-> Err("UNIQUE constraint failed: comment.id"), tables |-> tables]
    ELSE IF ~ \E p \in tables.post : p.id = comment.post_id
    THEN [result |-> Err("FOREIGN KEY constraint failed"), tables |-> tables]
    ELSE [result |-> Ok(comment), tables |-> [tables EXCEPT !.comment = @ \cup {comment}]]

\* <T as Persist>::persist(conn, entity)
Persist(T, tables, entity) ==
    CASE T = "Movie" -> MoviePersist(tables, entity)
      [] T = "Author" -> AuthorPersist(tables, entity)
      [] T = "Post" -> PostPersist(tables, entity)
      [] T = "Comment" -> CommentPersist(tables, entity)

(***************************************************************************)
(* Orchestration: persist_with as a stack of invocations. Each frame is    *)
(* one persist_with invocation after its `T::manifest(overrides)`: the     *)
(* entity, the pending operations not yet run, the connection handle.      *)
(***************************************************************************)
\* `before` records the stores as the call found them
NoCall == [op |-> "none", type |-> "none", overrides |-> <<>>, conn |-> "none",
           before |-> <<>>]
NoRet == [kind |-> "None", value |-> <<>>]
Pending == [kind |-> "Pending", value |-> <<>>]
Panic(msg) == [kind |-> "Panic", value |-> msg]
Value(v) == [kind |-> "Value", value |-> v]

\* a faulty persist_with: manifests with default overrides, not the caller's
PersistWithFrameIgnoring(T, c, overrides) ==
    LET m == Manifest(T, OverridesDefault(T))
    IN  [type |-> T, entity |-> m.entity, associations |-> m.associations,
         conn |-> c, overrides |-> overrides]

\* persist_with, line 104: let (entity, associations) = T::manifest(overrides)
PersistWithFrame(T, c, overrides) ==
    LET m == Manifest(T, overrides)
    IN  [type |-> T, entity |-> m.entity, associations |-> m.associations,
         conn |-> c, overrides |-> overrides]

\* persist::<T>(conn): persist_with(conn, T::Overrides::default())
PersistFrame(T, c) == PersistWithFrame(T, c, OverridesDefault(T))

\* the closure association() registers, around persist::<T>(conn):
\* .map_err(|_| "failed to persist")?
AssociationClosure(result) ==
    IF is_err(result) THEN Err("failed to persist") ELSE result

\* a faulty return path: the outermost result goes through the closure's
\* map_err as well
ResumeTranslating(rest, result) ==
    LET r == AssociationClosure(result)
    IN  IF rest = <<>>
        THEN [stack |-> <<>>, ret |-> r]
        ELSE IF is_err(r)
             THEN [stack |-> <<>>, ret |-> [kind |-> "Panic", value |-> r.value]]
             ELSE [stack |-> rest, ret |-> [kind |-> "Pending", value |-> <<>>]]

\* What the invocation below the finished one does with its result. The
\* outermost invocation hands it to the caller; an inner one was started
\* by a pending operation of its parent, whose loop unwrap()s the
\* closure's result: Err panics (every invocation is unwound), Ok is
\* discarded and the parent goes on.
Resume(rest, result) ==
    IF rest = <<>>
    THEN [stack |-> <<>>, ret |-> result]
    ELSE LET r == AssociationClosure(result)
         IN  IF is_err(r)
             THEN [stack |-> <<>>, ret |-> Panic(r.value)]
             ELSE [stack |-> rest, ret |-> Pending]

Top == stack[Len(stack)]

\* persist_with::<T>(conn, overrides) is called
PersistWith(T, c, overrides) ==
    /\ stack = <<>>
    /\ TotalRows(conns) < MaxRows
    /\ stack' = <<PersistWithFrame(T, c, overrides)>>
    /\ call' = [op |-> "persist_with", type |-> T, overrides |-> overrides, conn |-> c,
                before |-> conns]
    /\ ret' = Pending
    /\ log' = <<>>
    /\ UNCHANGED <<conns, seqVars>>

\* persist::<T>(conn) is called
PersistDefault(T, c) ==
    /\ stack = <<>>
    /\ TotalRows(conns) < MaxRows
    /\ stack' = <<PersistFrame(T, c)>>
    /\ call' = [op |-> "persist", type |-> T, overrides |-> OverridesDefault(T), conn |-> c,
                before |-> conns]
    /\ ret' = Pending
    /\ log' = <<>>
    /\ UNCHANGED <<conns, seqVars>>

\* a faulty loop: the pending operation is taken and dropped, never called
DrainSkipping ==
    /\ stack # <<>>
    /\ Top.associations # <<>>
    /\ stack' = [stack EXCEPT ![Len(stack)].associations = Tail(@)]
    /\ UNCHANGED <<conns, call, ret, log, seqVars>>

\* a faulty loop: the pending operation is called with another connection
\* than the one persist_with was given
DrainOtherConn ==
    /\ stack # <<>>
    /\ Top.associations # <<>>
    /\ LET n == Len(stack)
           association_ == Head(Top.associations)
           other == CHOOSE d \in {"c1", "c2"} : d # Top.conn
       IN  stack' = Append([stack EXCEPT ![n].associations = Tail(@)],
                           PersistFrame(association_.entity_type, other))
    /\ UNCHANGED <<conns, call, ret, log, seqVars>>

\* persist_with, lines 106-107: the loop takes the next pending operation
\* and calls it with conn.clone(); the closure calls persist::<T>(conn)
Drain ==
    /\ stack # <<>>
    /\ Top.associations # <<>>
    /\ LET n == Len(stack)
           association_ == Head(Top.associations)
       IN  stack' = Append([stack EXCEPT ![n].associations = Tail(@)],
                           PersistFrame(association_.entity_type, Top.conn))
    /\ UNCHANGED <<conns, call, ret, log, seqVars>>

\* persist_with, line 110: T::persist(&conn, entity).await, and the return
PersistEntity ==
    /\ stack # <<>>
    /\ Top.associations = <<>>
    /\ LET n == Len(stack)
           p == Persist(Top.type, conns[Top.conn], Top.entity)
           r == Resume(SubSeq(stack, 1, n - 1), p.result)
       IN  /\ conns' = [conns EXCEPT ![Top.conn] = p.tables]
           /\ log' = Append(log, [type |-> Top.type, entity |-> Top.entity,
                                  conn |-> Top.conn, result |-> p.result,
                                  depth |-> n, overrides |-> Top.overrides])
           /\ stack' = r.stack
           /\ ret' = r.ret
    /\ UNCHANGED <<call, seqVars>>

\* a faulty manifest_with: keeps the registry and lets it be drained
ManifestWithDraining(T, overrides) ==
    /\ stack = <<>>
    /\ call' = [op |-> "manifest_with", type |-> T, overrides |-> overrides, conn |-> "none",
                before |-> conns]
    /\ ret' = Value(manifest_with(T, overrides))
    /\ log' = <<>>
    /\ stack' = <<PersistWithFrame(T, "c1", overrides)>>
    /\ UNCHANGED <<conns, seqVars>>

\* manifest_with::<T>(overrides) is called
ManifestWith(T, overrides) ==
    /\ stack = <<>>
    /\ call' = [op |-> "manifest_with", type |-> T, overrides |-> overrides, conn |-> "none",
                before |-> conns]
    /\ ret' = Value(manifest_with(T, overrides))
    /\ log' = <<>>
    /\ UNCHANGED <<conns, stack, seqVars>>

\* manifest::<T>() is called
ManifestDefault(T) ==
    /\ stack = <<>>
    /\ call' = [op |-> "manifest", type |-> T, overrides |-> OverridesDefault(T), conn |-> "none",
                before |-> conns]
    /\ ret' = Value(manifest(T))
    /\ log' = <<>>
    /\ UNCHANGED <<conns, stack, seqVars>>

(***************************************************************************)
(* Sequence (src/sequence.rs); the two sequences of its tests              *)
(***************************************************************************)
Sequences == {"emails", "usernames"}

\* the production closures: format!("user{n}@example.com"), format!("jsmith{n}")
produce(s, n) ==
    IF s = "emails" THEN <<"user", n, "@example.com">> ELSE <<"jsmith", n>>

\* Sequence::new
SequenceNew == [counter |-> 1]

\* a faulty next(): increments before reading the counter
nextPreIncrement(s, seq) ==
    [seq |-> [seq EXCEPT !.counter = @ + 1], value |-> produce(s, seq.counter + 1)]

\* Sequence::next: the Sequence afterwards and the value returned
next(s, seq) ==
    LET n == seq.counter
    IN  [seq |-> [seq EXCEPT !.counter = @ + 1], value |-> produce(s, n)]

RECURSIVE takeLoop(_, _, _, _)
\* the loop of Sequence::take: `for _ in 0..n { values.push(self.next()) }`
takeLoop(s, seq, values, n) ==
    IF n = 0 THEN [seq |-> seq, value |-> values]
    ELSE LET r == next(s, seq)
         IN  takeLoop(s, r.seq, Append(values, r.value), n - 1)

\* a faulty take: `for _ in 0..=n`
takeInclusive(s, seq, n) == takeLoop(s, seq, <<>>, n + 1)

\* Sequence::take
take(s, seq, n) == takeLoop(s, seq, <<>>, n)

\* seq.next() is called
SeqNext(s) ==
    /\ sequences[s].counter < MaxCounter
    /\ LET r == next(s, sequences[s])
       IN  /\ sequences' = [sequences EXCEPT ![s] = r.seq]
           /\ seqret' = r.value
           /\ produced' = [produced EXCEPT ![s] = Append(@, r.value)]
    /\ seqcall' = [op |-> "next", seq |-> s, n |-> 1, counter |-> sequences[s].counter]
    /\ UNCHANGED coreVars

\* seq.take(n) is called
SeqTake(s, n) ==
    /\ sequences[s].counter + n <= MaxCounter
    /\ LET r == take(s, sequences[s], n)
       IN  /\ sequences' = [sequences EXCEPT ![s] = r.seq]
           /\ seqret' = r.value
           /\ produced' = [produced EXCEPT ![s] = @ \o r.value]
    /\ seqcall' = [op |-> "take", seq |-> s, n |-> n, counter |-> sequences[s].counter]
    /\ UNCHANGED coreVars

(***************************************************************************)
(* Specifications                                                          *)
(***************************************************************************)
Init ==
    /\ conns = [c \in Conns |-> EmptyTables]
    /\ stack = <<>>
    /\ call = NoCall
    /\ ret = NoRet
    /\ log = <<>>
    /\ sequences = [s \in Sequences |-> SequenceNew]
    /\ seqcall = [op |-> "none", seq |-> "none", n |-> 0, counter |-> 0]
    /\ seqret = <<>>
    /\ produced = [s \in Sequences |-> <<>>]

Next ==
    \/ \E T \in EntityTypes, c \in Conns : PersistDefault(T, c)
    \/ \E T \in EntityTypes, c \in Conns : \E o \in Overrides(T) : PersistWith(T, c, o)
    \/ Drain
    \/ PersistEntity
    \/ \E T \in EntityTypes : ManifestDefault(T)
    \/ \E T \in EntityTypes : \E o \in Overrides(T) : ManifestWith(T, o)

\* the orchestration functions over the stores
Spec == Init /\ [][Next]_vars

SeqStep ==
    \/ \E s \in Sequences : SeqNext(s)
    \/ \E s \in Sequences, n \in 0..MaxTake : SeqTake(s, n)

\* the Sequence generators, which share no state with the orchestration
SeqSpec == Init /\ [][SeqStep]_vars

(***************************************************************************)
(* Properties                                                              *)
(***************************************************************************)
IsPersistCall == call.op \in {"persist", "persist_with"}
IsManifestCall == call.op \in {"manifest", "manifest_with"}
\* the call has returned to (or unwound into) its caller
Finished == IsPersistCall /\ stack = <<>>
LogTypes == [i \in 1..Len(log) |-> log[i].type]

\* the records a written entity refers to through a field its manifesting
\* resolved by association (the field was absent from the overrides)
AssociatedRefs(e) ==
    IF e.type = "Post" /\ e.overrides.author_id = None
    THEN {[type |-> "Author", id |-> e.entity.author_id]}
    ELSE IF e.type = "Comment" /\ e.overrides.post_id = None
    THEN {[type |-> "Post", id |-> e.entity.post_id]}
    ELSE {}

\* C1: within a persist/persist_with call, when the write of an entity is
\* attempted, every dependency it refers to by association has already been
\* written successfully to the same store, by the pending operation of that
\* entity's own registry; and the root's write, if attempted at all, is the
\* last write of the call.
C1_DependenciesFirst ==
    /\ \A i \in 1..Len(log) : \A d \in AssociatedRefs(log[i]) :
          \E j \in 1..(i - 1) :
             /\ log[j].type = d.type
             /\ log[j].entity.id = d.id
             /\ log[j].result.kind = "Ok"
             /\ log[j].conn = log[i].conn
             /\ log[j].depth = log[i].depth + 1
    /\ \A i \in 1..Len(log) :
          log[i].depth = 1 => /\ i = Len(log)
                              /\ stack = <<>>
                              /\ log[i].type = call.type
                              /\ \A j \in 1..(i - 1) : log[j].depth > 1
    /\ (Finished /\ ret.kind \in {"Ok", "Err"}) =>
          (log # <<>> /\ log[Len(log)].depth = 1)

\* a Comment has been persisted after its Post and the Post's Author
C1_Witness ==
    /\ Finished /\ call.type = "Comment" /\ ret.kind = "Ok"
    /\ LogTypes = <<"Author", "Post", "Comment">>
    /\ log[3].depth = 1

RECURSIVE ChainLength(_)
\* the number of entities in the dependency chain below T: Movie and Author
\* declare none, Post declares Author, Comment declares Post
ChainLength(T) ==
    CASE T = "Comment" -> 1 + ChainLength("Post")
      [] T = "Post" -> 1 + ChainLength("Author")
      [] OTHER -> 0

\* C2: a successful persist() of an entity whose dependency chain has depth N
\* has made exactly N+1 store writes, every one successful and no two of the
\* same entity type; on a store that was empty, persist() is successful.
C2_ExactlyNPlusOneWrites ==
    (Finished /\ call.op = "persist") =>
        /\ ret.kind = "Ok" =>
              /\ Len(log) = ChainLength(call.type) + 1
              /\ \A i \in 1..Len(log) : log[i].result.kind = "Ok"
              /\ \A i, j \in 1..Len(log) : log[i].type = log[j].type => i = j
              /\ TotalRows(conns) = TotalRows(call.before) + ChainLength(call.type) + 1
        /\ call.before[call.conn] = EmptyTables => ret.kind = "Ok"

\* persist::<Comment>() has succeeded: a chain of depth 2, three writes
C2_Witness ==
    /\ Finished /\ call.op = "persist" /\ call.type = "Comment"
    /\ ret.kind = "Ok" /\ Len(log) = 3

\* C3: persist::<Comment>() on an empty store ends with exactly three rows,
\* inserted in the order Author, Post, Comment; the stored Comment's post_id
\* is the stored Post's id and the stored Post's author_id the stored
\* Author's id.
C3_CommentHierarchy ==
    (Finished /\ call.op = "persist" /\ call.type = "Comment"
       /\ call.before[call.conn] = EmptyTables) =>
        LET t == conns[call.conn]
        IN  /\ ret.kind = "Ok"
            /\ LogTypes = <<"Author", "Post", "Comment">>
            /\ \A i \in 1..3 : log[i].result.kind = "Ok" /\ log[i].conn = call.conn
            /\ t.movie = {}
            /\ t.author = {log[1].entity}
            /\ t.post = {log[2].entity}
            /\ t.comment = {log[3].entity}
            /\ ret.value = log[3].entity
            /\ \A c \in t.comment, p \in t.post, a \in t.author :
                  c.post_id = p.id /\ p.author_id = a.id

\* persist::<Comment>() has returned on a store that was empty
C3_Witness ==
    /\ Finished /\ call.op = "persist" /\ call.type = "Comment"
    /\ call.before[call.conn] = EmptyTables
    /\ Cardinality(conns[call.conn].comment) = 1

\* the calls whose manifesting registers no association: Movie and Author
\* declare none; Post and Comment declare none when the caller supplies the
\* key their association would resolve
RegistersNothing(T, overrides) ==
    \/ T \in {"Movie", "Author"}
    \/ T = "Post" /\ is_some(overrides.author_id)
    \/ T = "Comment" /\ is_some(overrides.post_id)

\* C4: a persist/persist_with call whose manifesting registers no association
\* attempts exactly one store write, the root entity's own, and the stores
\* change by nothing but that row.
C4_EmptyRegistryOneWrite ==
    (Finished /\ RegistersNothing(call.type, call.overrides)) =>
        /\ Len(log) = 1
        /\ log[1].type = call.type /\ log[1].depth = 1 /\ log[1].conn = call.conn
        /\ ret = log[1].result
        /\ \A c \in Conns \ {call.conn} : conns[c] = call.before[c]
        /\ TotalRows(conns) =
              TotalRows(call.before) + (IF ret.kind = "Ok" THEN 1 ELSE 0)

\* a Post was persisted with its author_id supplied: one write, no Author
C4_Witness ==
    /\ Finished /\ call.type = "Post" /\ is_some(call.overrides.author_id)
    /\ ret.kind = "Ok" /\ Len(log) = 1

\* the row of the entity is in the table of its type
Stored(tables, T, entity) ==
    CASE T = "Movie" ->
           \E r \in tables.movie : r.title = entity.title /\ r.year = entity.year
      [] T = "Author" -> entity \in tables.author
      [] T = "Post" -> entity \in tables.post
      [] T = "Comment" -> entity \in tables.comment

\* a pending operation of the call failed: a dependency's write was refused
DependencyFailed ==
    \E i \in 1..Len(log) : log[i].depth > 1 /\ log[i].result.kind = "Err"

\* C5: when a pending dependency operation fails, the call returns an error
\* to its caller; the failed write is the last write of the call, the root
\* entity's write is never attempted, and every dependency written before
\* the failure is still in the store.
C5_DrainFailureReturnsError ==
    (Finished /\ DependencyFailed) =>
        /\ ret.kind = "Err"
        /\ log[Len(log)].result.kind = "Err"
        /\ \A i \in 1..Len(log) : log[i].depth > 1
        /\ \A i \in 1..(Len(log) - 1) :
              /\ log[i].result.kind = "Ok"
              /\ Stored(conns[log[i].conn], log[i].type, log[i].entity)

\* C6: when a persistence capability fails, of the root or of a dependency,
\* the call returns to its caller the very error that capability produced,
\* and the failed write was attempted once.
C6_CapabilityErrorUntranslated ==
    (Finished /\ log # <<>> /\ log[Len(log)].result.kind = "Err") =>
        /\ ret = log[Len(log)].result
        /\ \A i \in 1..(Len(log) - 1) : log[i].result.kind = "Ok"

\* C7: when every pending operation succeeded and the root's persistence
\* capability failed, the call returns exactly the root capability's error,
\* the root write was attempted once, and every dependency row written
\* during the drain is still in the store.
C7_RootFailure ==
    (Finished /\ log # <<>> /\ log[Len(log)].depth = 1
       /\ log[Len(log)].result.kind = "Err") =>
        /\ ret = log[Len(log)].result
        /\ ret.value # "failed to persist"
        /\ Cardinality({i \in 1..Len(log) : log[i].depth = 1}) = 1
        /\ \A i \in 1..(Len(log) - 1) :
              /\ log[i].result.kind = "Ok"
              /\ Stored(conns[call.conn], log[i].type, log[i].entity)
        /\ TotalRows(conns) = TotalRows(call.before) + Len(log) - 1

\* persist::<Post>() wrote its Author and was then refused the Post
C7_Witness ==
    /\ Finished /\ call.type = "Post" /\ Len(log) = 2
    /\ log[1].result.kind = "Ok" /\ log[2].result.kind = "Err"
    /\ ret.kind = "Err"
    /\ Stored(conns[call.conn], "Author", log[1].entity)

\* every field the overrides supply is the field of the entity
Verbatim(overrides, entity) ==
    \A f \in DOMAIN overrides :
        is_some(overrides[f]) => entity[f] = unwrap(overrides[f])

\* C8: manifest_with returns, and persist_with writes, an entity whose every
\* supplied field holds the supplied value; when the caller supplies the
\* field an association would resolve, no pending operation is registered
\* and the call writes no record but the root's.
C8_OverridesVerbatim ==
    /\ call.op = "manifest_with" => Verbatim(call.overrides, ret.value)
    /\ \A k \in 1..Len(stack) :
          /\ Verbatim(stack[k].overrides, stack[k].entity)
          /\ RegistersNothing(stack[k].type, stack[k].overrides) =>
                stack[k].associations = <<>>
    /\ \A i \in 1..Len(log) : Verbatim(log[i].overrides, log[i].entity)
    /\ (IsPersistCall /\ RegistersNothing(call.type, call.overrides)) =>
          \A i \in 1..Len(log) : log[i].type = call.type /\ log[i].depth = 1

\* a Comment was persisted with its post_id supplied
C8_Witness ==
    /\ Finished /\ call.op = "persist_with" /\ call.type = "Comment"
    /\ is_some(call.overrides.post_id) /\ is_some(call.overrides.username)
    /\ ret.kind = "Ok"
    /\ ret.value.post_id = unwrap(call.overrides.post_id)

C9_Values ==
    /\ \A s \in Sequences :
          /\ Len(produced[s]) = sequences[s].counter - 1
          /\ \A k \in 1..Len(produced[s]) : produced[s][k] = produce(s, k)
    /\ seqcall.op = "next" =>
          seqret = produce(seqcall.seq, Len(produced[seqcall.seq]))
    /\ seqcall.op = "take" =>
          LET j == Len(produced[seqcall.seq]) - seqcall.n
          IN  /\ Len(seqret) = seqcall.n
              /\ \A i \in 1..seqcall.n : seqret[i] = produce(seqcall.seq, j + i)

\* C9: the k-th value a Sequence produces is produce(k), whether it comes
\* from next() or take(); take(n) after j values returns produce(j+1), ...,
\* produce(j+n) in order; the counter is one more than the number of values
\* produced and never decreases.
C9_SequenceOrder ==
    /\ []C9_Values
    /\ [][\A s \in Sequences : sequences'[s].counter >= sequences[s].counter]_vars

\* take(2) was called after three values had been produced
C9_Witness ==
    /\ seqcall.op = "take" /\ seqcall.n = 2 /\ seqcall.counter = 4
    /\ Len(seqret) = 2

\* C10: manifest() and manifest_with() write nothing to any store, for every
\* entity type; the pending operations registered while manifesting are
\* never run.
C10_ManifestNoStore ==
    IsManifestCall =>
        /\ conns = call.before
        /\ stack = <<>>
        /\ log = <<>>
        /\ ret.kind = "Value"

\* a Comment, whose manifesting registers a Post, was manifested on stores
\* that hold rows
C10_Witness ==
    /\ call.op = "manifest_with" /\ call.type = "Comment"
    /\ call.overrides.post_id = None
    /\ ret.kind = "Value"
    /\ call.before # [c \in Conns |-> EmptyTables]

\* C11: a successful persist/persist_with call returns the value the root
\* entity's persistence capability returned, which is the record the call
\* wrote for the root: the entity manifested with the caller's overrides,
\* now in the store the caller passed.
C11_ReturnsPersistedRoot ==
    (Finished /\ ret.kind = "Ok") =>
        LET last == log[Len(log)]
        IN  /\ last.depth = 1 /\ last.type = call.type
            /\ ret = last.result
            /\ ret.value = last.entity
            /\ ret.value = manifest_with(call.type, call.overrides)
            /\ Verbatim(call.overrides, ret.value)
            /\ Stored(conns[call.conn], call.type, ret.value)
            /\ ~ Stored(call.before[call.conn], call.type, ret.value)

\* persist_with returned a Movie with the overridden title, as in
\* persist_works_with_overrides
C11_Witness ==
    /\ Finished /\ call.op = "persist_with" /\ call.type = "Movie"
    /\ ret = Ok([title |-> "The Social Network", year |-> 2010])
    /\ \E r \in conns[call.conn].movie : r.title = "The Social Network"

\* the values the entity types without dependencies manifest by default
ExpectedDefault(T) ==
    IF T = "Movie" THEN [title |-> "Inception", year |-> 2010]
    ELSE [id |-> 1, name |-> "Author 1"]

\* C12: for the entity types that declare no dependency (Movie, Author),
\* manifest() returns one and the same value on every call, whatever the
\* stores hold and whatever calls were made before.
C12_ManifestDeterministic ==
    (call.op = "manifest" /\ call.type \in {"Movie", "Author"}) =>
        ret = Value(ExpectedDefault(call.type))

\* manifest::<Author>() was called after an Author had been persisted
C12_Witness ==
    /\ call.op = "manifest" /\ call.type = "Author"
    /\ call.before["c1"].author # {}
    /\ ret.kind = "Value"

RECURSIVE NNexts(_, _, _)
\* n consecutive calls of next() on a Sequence: the Sequence afterwards and
\* the values returned, in order
NNexts(s, seq, n) ==
    IF n = 0 THEN [seq |-> seq, value |-> <<>>]
    ELSE LET r == NNexts(s, seq, n - 1)
             x == next(s, r.seq)
         IN  [seq |-> x.seq, value |-> Append(r.value, x.value)]

\* C18: take(n) returns what n consecutive calls of next() return, in the
\* same order, and leaves the Sequence as they leave it, its counter
\* advanced by exactly n; take(0) returns the empty list and leaves the
\* counter unchanged.
C18_TakeIsNNexts ==
    seqcall.op = "take" =>
        LET s == seqcall.seq
            n == seqcall.n
            before == [counter |-> seqcall.counter]
            r == NNexts(s, before, n)
        IN  /\ seqret = r.value
            /\ sequences[s] = r.seq
            /\ Len(seqret) = n
            /\ sequences[s].counter = seqcall.counter + n
            /\ \A i \in 1..n : seqret[i] = produce(s, seqcall.counter + i - 1)
            /\ n = 0 => (seqret = <<>> /\ sequences[s] = before)

\* take(3) was called on a Sequence that had already produced a value
C18_Witness ==
    /\ seqcall.op = "take" /\ seqcall.n = 3 /\ seqcall.counter = 2
    /\ Len(seqret) = 3

\* C19: every store write of a persist/persist_with call, by a pending
\* operation at any depth or by the root, goes to the connection the caller
\* passed; the other stores are as the call found them, and the stores
\* change by nothing but the rows the persistence capabilities inserted.
C19_SingleStoreHandle ==
    IsPersistCall =>
        /\ \A k \in 1..Len(stack) : stack[k].conn = call.conn
        /\ \A i \in 1..Len(log) : log[i].conn = call.conn
        /\ \A c \in Conns \ {call.conn} : conns[c] = call.before[c]
        /\ TotalRows(conns) = TotalRows(call.before)
              + Cardinality({i \in 1..Len(log) : log[i].result.kind = "Ok"})
        /\ \A i \in 1..Len(log) :
              log[i].result.kind = "Ok" =>
                 Stored(conns[call.conn], log[i].type, log[i].entity)

\* a Comment, its Post and the Post's Author were written to c2 while c1
\* held rows of its own
C19_Witness ==
    /\ Finished /\ call.type = "Comment" /\ call.conn = "c2"
    /\ Len(log) = 3 /\ ret.kind = "Ok"
    /\ conns["c1"] # EmptyTables
    /\ conns["c1"] = call.before["c1"]

(***************************************************************************)
(* The orchestration over entity types an adopter supplies as T. The       *)
(* functions of lib.rs are generic in T: Manifest + Persist; what they do  *)
(* with a type depends only on the associations its manifest registers, in *)
(* order, and on where its defaults come from. The types below follow the  *)
(* pattern of the tests (every association resolved before the record is   *)
(* built, the key of each stored as a foreign key): registries of several  *)
(* operations, the same dependency registered twice, a default drawn from  *)
(* a Sequence, and a type that associates with itself.                     *)
(* Here manifesting is followed call by call: the stack holds the          *)
(* invocations of T::manifest in progress ("manifest") as well as those of *)
(* persist_with ("persist_with").                                          *)
(***************************************************************************)
GraphTypes == {"User", "Team", "Label", "Project", "Ticket", "Board", "Message", "Node"}

\* the association::<D>() calls of T::manifest, in the order it makes them
Deps(T) ==
    CASE T = "Project" -> <<"Team">>
      [] T = "Ticket" -> <<"Project", "Label">>
      [] T = "Board" -> <<"Project", "Team">>
      [] T = "Message" -> <<"User", "User">>
      [] T = "Node" -> <<"Node">>
      [] OTHER -> <<>>

\* the Sequence the default key of T is drawn from, if any; the other types
\* default their key to the constant 1, as the ids of the tests
KeySequence(T) == IF T = "User" THEN "emails" ELSE "none"

EmptyGraphTables == [T \in GraphTypes |-> {}]

\* T::persist for these types: one insert into the table of the type, whose
\* key is unique and whose references are foreign keys
GraphPersist(tables, entity) ==
    IF \E r \in tables[entity.type] : r.key = entity.key
    THEN [result |-> Err("UNIQUE constraint failed"), tables |-> tables]
    ELSE IF \E k \in 1..Len(entity.refs) :
              ~ \E r \in tables[Deps(entity.type)[k]] : r.key = entity.refs[k]
    THEN [result |-> Err("FOREIGN KEY constraint failed"), tables |-> tables]
    ELSE [result |-> Ok(entity),
          tables |-> [tables EXCEPT ![entity.type] = @ \cup {entity}]]

\* an invocation of T::manifest(T::Overrides::default()): the associations
\* it has yet to ask for, its registry and the keys it was given so far
ManifestFrame(T) ==
    [fn |-> "manifest", type |-> T, todo |-> Deps(T),
     associations |-> AssociationsNew, refs |-> <<>>,
     entity |-> <<>>, conn |-> "none", path |-> <<>>, taken |-> 0]

\* an invocation of persist_with, about to call T::manifest (line 104);
\* `path` tells which pending operations led to it: <<>> for the call of the
\* caller, <<2, 1>> for the first operation of the second operation's drain
PersistWithAwaiting(T, c, path) ==
    [fn |-> "persist_with", type |-> T, todo |-> <<>>,
     associations |-> AssociationsNew, refs |-> <<>>,
     entity |-> <<>>, conn |-> c, path |-> path, taken |-> 0]

\* persist::<T>(conn) is called
GraphPersistDefault(T, c) ==
    /\ stack = <<>>
    /\ sequences["emails"].counter < MaxDrawn
    /\ stack' = <<PersistWithAwaiting(T, c, <<>>), ManifestFrame(T)>>
    /\ call' = [op |-> "persist", type |-> T, overrides |-> <<>>, conn |-> c,
                before |-> conns]
    /\ ret' = Pending
    /\ log' = <<>>
    /\ UNCHANGED <<conns, seqVars>>

\* manifest::<T>() is called
GraphManifestDefault(T) ==
    /\ stack = <<>>
    /\ sequences["emails"].counter < MaxDrawn
    /\ stack' = <<ManifestFrame(T)>>
    /\ call' = [op |-> "manifest", type |-> T, overrides |-> <<>>, conn |-> "none",
                before |-> conns]
    /\ ret' = Pending
    /\ log' = <<>>
    /\ UNCHANGED <<conns, seqVars>>

\* T::manifest asks for its next association: association::<D>() begins
\* with manifest::<D>() (line 116)
GraphAssociate ==
    /\ stack # <<>>
    /\ Top.fn = "manifest"
    /\ Top.todo # <<>>
    /\ Len(stack) < MaxDepth
    /\ stack' = Append(stack, ManifestFrame(Head(Top.todo)))
    /\ UNCHANGED <<conns, call, ret, log, seqVars>>

\* the entity T::manifest builds once its associations are resolved, and the
\* Sequences after its defaults were drawn
Built(frame) ==
    LET s == KeySequence(frame.type)
    IN  IF s = "none"
        THEN [entity |-> [type |-> frame.type, key |-> 1, refs |-> frame.refs],
              sequences |-> sequences, produced |-> produced]
        ELSE LET r == next(s, sequences[s])
             IN  [entity |-> [type |-> frame.type, key |-> r.value, refs |-> frame.refs],
                  sequences |-> [sequences EXCEPT ![s] = r.seq],
                  produced |-> [produced EXCEPT ![s] = Append(@, r.value)]]

\* the innermost invocation is a T::manifest that has resolved its associations
ManifestDone == stack # <<>> /\ Top.fn = "manifest" /\ Top.todo = <<>>

\* manifest::<T>() returns to the caller: manifest_with drops the registry
GraphManifestReturn ==
    /\ ManifestDone
    /\ Len(stack) = 1
    /\ LET b == Built(Top)
       IN  /\ ret' = Value(b.entity)
           /\ sequences' = b.sequences
           /\ produced' = b.produced
    /\ stack' = <<>>
    /\ UNCHANGED <<conns, call, log, seqcall, seqret>>

\* association::<D>() returns into the manifest that called it: the registry
\* of manifest::<D>() is dropped, the deferred persist::<D> is pushed onto
\* the caller's registry (lines 118-124) and the entity is returned, whose
\* key the caller keeps
GraphAssociationReturn ==
    /\ ManifestDone
    /\ Len(stack) > 1
    /\ stack[Len(stack) - 1].fn = "manifest"
    /\ LET b == Built(Top)
           n == Len(stack) - 1
       IN  /\ stack' = [SubSeq(stack, 1, n) EXCEPT
                           ![n].associations = AssociationsPersist(@, Top.type),
                           ![n].refs = Append(@, b.entity.key),
                           ![n].todo = Tail(@)]
           /\ sequences' = b.sequences
           /\ produced' = b.produced
    /\ UNCHANGED <<conns, call, ret, log, seqcall, seqret>>

\* T::manifest returns into persist_with (line 104), which now holds the
\* entity and its registry
GraphPersistManifested ==
    /\ ManifestDone
    /\ Len(stack) > 1
    /\ stack[Len(stack) - 1].fn = "persist_with"
    /\ LET b == Built(Top)
           n == Len(stack) - 1
       IN  /\ stack' = [SubSeq(stack, 1, n) EXCEPT
                           ![n].associations = Top.associations,
                           ![n].entity = b.entity]
           /\ sequences' = b.sequences
           /\ produced' = b.produced
    /\ UNCHANGED <<conns, call, ret, log, seqcall, seqret>>

\* the innermost invocation is a persist_with that has manifested its entity
Manifested == stack # <<>> /\ Top.fn = "persist_with" /\ Top.entity # <<>>

\* a faulty loop: takes the pending operations from the end of the registry
GraphDrainLast ==
    /\ Manifested
    /\ Top.associations # <<>>
    /\ LET n == Len(stack)
           m == Len(Top.associations)
           association_ == Top.associations[m]
           parent == [Top EXCEPT !.associations = SubSeq(@, 1, m - 1), !.taken = @ + 1]
       IN  stack' = [stack EXCEPT ![n] = parent] \o
                    << PersistWithAwaiting(association_.entity_type, Top.conn,
                                           Append(Top.path, parent.taken)),
                       ManifestFrame(association_.entity_type) >>
    /\ UNCHANGED <<conns, call, ret, log, seqVars>>

\* a faulty loop: starts the first two pending operations together instead
\* of awaiting the first
GraphDrainTogether ==
    /\ Manifested
    /\ Top.associations # <<>>
    /\ LET n == Len(stack)
           m == IF Len(Top.associations) > 1 THEN 2 ELSE 1
           started == [k \in 1..m |->
                         PersistWithAwaiting(Top.associations[k].entity_type, Top.conn,
                                             Append(Top.path, Top.taken + k))]
           parent == [Top EXCEPT !.associations = SubSeq(@, m + 1, Len(@)),
                                 !.taken = @ + m]
       IN  stack' = [stack EXCEPT ![n] = parent] \o started \o
                    <<ManifestFrame(started[m].type)>>
    /\ UNCHANGED <<conns, call, ret, log, seqVars>>

\* a faulty loop: a pending operation whose entity type already has a row
\* in the store is taken as done
GraphDrainDeduplicating ==
    /\ Manifested
    /\ Top.associations # <<>>
    /\ LET n == Len(stack)
           association_ == Head(Top.associations)
           parent == [Top EXCEPT !.associations = Tail(@), !.taken = @ + 1]
       IN  IF conns[Top.conn][association_.entity_type] # {}
           THEN stack' = [stack EXCEPT ![n] = parent]
           ELSE stack' = [stack EXCEPT ![n] = parent] \o
                    << PersistWithAwaiting(association_.entity_type, Top.conn,
                                           Append(Top.path, parent.taken)),
                       ManifestFrame(association_.entity_type) >>
    /\ UNCHANGED <<conns, call, ret, log, seqVars>>

\* persist_with, lines 106-107: the loop takes the next pending operation
\* and calls it with conn.clone(); the closure calls persist::<D>(conn)
GraphDrain ==
    /\ Manifested
    /\ Top.associations # <<>>
    /\ LET n == Len(stack)
           association_ == Head(Top.associations)
           parent == [Top EXCEPT !.associations = Tail(@), !.taken = @ + 1]
       IN  stack' = [stack EXCEPT ![n] = parent] \o
                    << PersistWithAwaiting(association_.entity_type, Top.conn,
                                           Append(Top.path, parent.taken)),
                       ManifestFrame(association_.entity_type) >>
    /\ UNCHANGED <<conns, call, ret, log, seqVars>>

\* a faulty persist: the outermost persist_with keeps the store locked
\* while it drains, so the T::persist of a pending operation never completes
GraphPersistEntityLocked ==
    /\ Manifested
    /\ Top.associations = <<>>
    /\ Len(stack) = 1
    /\ LET p == GraphPersist(conns[Top.conn], Top.entity)
       IN  /\ conns' = [conns EXCEPT ![Top.conn] = p.tables]
           /\ log' = Append(log, [type |-> Top.type, entity |-> Top.entity,
                                  conn |-> Top.conn, result |-> p.result,
                                  depth |-> Len(Top.path) + 1, path |-> Top.path])
           /\ stack' = <<>>
           /\ ret' = p.result
    /\ UNCHANGED <<call, seqVars>>

\* persist_with, line 110: T::persist(&conn, entity).await, and the return
GraphPersistEntity ==
    /\ Manifested
    /\ Top.associations = <<>>
    /\ LET n == Len(stack)
           p == GraphPersist(conns[Top.conn], Top.entity)
           r == Resume(SubSeq(stack, 1, n - 1), p.result)
       IN  /\ conns' = [conns EXCEPT ![Top.conn] = p.tables]
           /\ log' = Append(log, [type |-> Top.type, entity |-> Top.entity,
                                  conn |-> Top.conn, result |-> p.result,
                                  depth |-> Len(Top.path) + 1, path |-> Top.path])
           /\ stack' = r.stack
           /\ ret' = r.ret
    /\ UNCHANGED <<call, seqVars>>

GraphInit ==
    /\ conns = [c \in Conns |-> EmptyGraphTables]
    /\ stack = <<>>
    /\ call = NoCall
    /\ ret = NoRet
    /\ log = <<>>
    /\ sequences = [s \in Sequences |-> SequenceNew]
    /\ seqcall = [op |-> "none", seq |-> "none", n |-> 0, counter |-> 0]
    /\ seqret = <<>>
    /\ produced = [s \in Sequences |-> <<>>]

\* what a call does once it was made
GraphStep ==
    \/ GraphAssociate
    \/ GraphManifestReturn
    \/ GraphAssociationReturn
    \/ GraphPersistManifested
    \/ GraphDrain
    \/ GraphPersistEntity

GraphNext ==
    \/ \E T \in GraphTypes, c \in Conns : GraphPersistDefault(T, c)
    \/ \E T \in GraphTypes : GraphManifestDefault(T)
    \/ GraphStep

\* the orchestration functions over the adopter's entity types
GraphSpec == GraphInit /\ [][GraphNext]_vars

\* a call that was made is carried on: persist_with is one task, each
\* pending operation and the final T::persist is awaited to completion
GraphLiveSpec == GraphSpec /\ WF_vars(GraphStep)

(***************************************************************************)
(* Properties of the orchestration over the adopter's entity types         *)
(***************************************************************************)
\* the persist_with invocations in progress that hold their entity
Holding == {k \in 1..Len(stack) : stack[k].fn = "persist_with" /\ stack[k].entity # <<>>}

ParentPath(path) == SubSeq(path, 1, Len(path) - 1)
LastOf(path) == path[Len(path)]

\* C13: the entity a pending operation writes has the key association()
\* returned to the dependent when the operation was registered, which the
\* dependent embedded as its reference, whatever the dependency's defaults
\* are drawn from.
C13_DeferredWritesReturnedValue ==
    \A i \in 1..Len(log) :
        log[i].path # <<>> =>
            /\ \A k \in Holding :
                  stack[k].path = ParentPath(log[i].path) =>
                     log[i].entity.key = stack[k].entity.refs[LastOf(log[i].path)]
            /\ \A j \in 1..Len(log) :
                  log[j].path = ParentPath(log[i].path) =>
                     log[i].entity.key = log[j].entity.refs[LastOf(log[i].path)]

\* every persist_with invocation in progress
Persisting == {k \in 1..Len(stack) : stack[k].fn = "persist_with"}

RECURSIVE ValidPath(_, _)
\* path names a pending operation in the graph below T: its first index is
\* an association of T, the rest a path below that association's type
ValidPath(T, path) ==
    \/ path = <<>>
    \/ /\ Head(path) \in 1..Len(Deps(T))
       /\ ValidPath(Deps(T)[Head(path)], Tail(path))

RECURSIVE TypeAt(_, _)
\* the entity type the pending operation at path is to persist
TypeAt(T, path) ==
    IF path = <<>> THEN T ELSE TypeAt(Deps(T)[Head(path)], Tail(path))

LogIndexOf(path) == {i \in 1..Len(log) : log[i].path = path}

\* C14: in every drain the pending operations run in the order they were
\* appended, each at most once: every invocation is that of the operation
\* registered at its position, no operation is invoked twice, the registry
\* still holds exactly the operations not yet taken, in order; when the
\* drain has succeeded every operation has run exactly once, and nothing of
\* the registry outlives the call.
C14_InOrderAtMostOnce ==
    call.op = "persist" =>
        /\ \A i \in 1..Len(log) :
              /\ ValidPath(call.type, log[i].path)
              /\ log[i].type = TypeAt(call.type, log[i].path)
              /\ Cardinality(LogIndexOf(log[i].path)) = 1
              /\ \A k \in Persisting : stack[k].path # log[i].path
        /\ \A k \in Persisting :
              /\ ValidPath(call.type, stack[k].path)
              /\ stack[k].type = TypeAt(call.type, stack[k].path)
              /\ \A l \in Persisting : stack[l].path = stack[k].path => l = k
        /\ \A k \in Holding :
              LET f == stack[k]
                  d == Deps(f.type)
              IN  /\ f.taken <= Len(d)
                  /\ Len(f.associations) = Len(d) - f.taken
                  /\ \A m \in 1..Len(f.associations) :
                        f.associations[m] = AnyAssociation(d[f.taken + m])
                  /\ \A m \in 1..(f.taken - 1) :
                        \E i \in LogIndexOf(Append(f.path, m)) : log[i].result.kind = "Ok"
                  /\ f.taken >= 1 =>
                        \/ LogIndexOf(Append(f.path, f.taken)) # {}
                        \/ \E l \in Persisting : stack[l].path = Append(f.path, f.taken)
        /\ \A i \in 1..Len(log) :
              \A m \in 1..Len(Deps(log[i].type)) :
                  \E j \in 1..(i - 1) :
                     /\ log[j].path = Append(log[i].path, m)
                     /\ log[j].result.kind = "Ok"
                     /\ \A j2 \in 1..(i - 1) :
                           (\E m2 \in 1..(m - 1) : log[j2].path = Append(log[i].path, m2))
                              => j2 < j
        /\ stack = <<>> => ret.kind \in {"Ok", "Err", "Panic"}

\* persist::<Ticket>() has succeeded: Project (after its Team), then Label,
\* then the Ticket
C14_Witness ==
    /\ call.op = "persist" /\ call.type = "Ticket" /\ stack = <<>>
    /\ ret.kind = "Ok"
    /\ [i \in 1..Len(log) |-> log[i].type] = <<"Team", "Project", "Label", "Ticket">>
    /\ [i \in 1..Len(log) |-> log[i].path] = << <<1, 1>>, <<1>>, <<2>>, <<>> >>

IsProperPrefix(p, q) == Len(p) < Len(q) /\ SubSeq(q, 1, Len(p)) = p

\* the operation at path p, with all of its nested drain, comes before the
\* one at q: p lies below q, or they part at a registry where p's index is
\* the smaller
PathBefore(p, q) ==
    \/ IsProperPrefix(q, p)
    \/ \E d \in 1..Len(p) :
          /\ d <= Len(q)
          /\ SubSeq(p, 1, d - 1) = SubSeq(q, 1, d - 1)
          /\ p[d] < q[d]

\* C15: within one persist call the pending operations do not overlap: the
\* persist_with invocations in progress form a single chain, each started
\* by a pending operation of the one before; every write made so far
\* belongs to an operation that comes before all those in progress and
\* before every later write, nested drains included; the root's write comes
\* after all of them.
C15_NoOverlap ==
    call.op = "persist" =>
        /\ \A k, l \in Persisting :
              k < l => IsProperPrefix(stack[k].path, stack[l].path)
        /\ \A i, j \in 1..Len(log) :
              i < j => PathBefore(log[i].path, log[j].path)
        /\ \A i \in 1..Len(log) : \A k \in Persisting :
              PathBefore(log[i].path, stack[k].path)
        /\ \A i \in 1..Len(log) :
              log[i].path = <<>> => (i = Len(log) /\ stack = <<>>)

\* persist::<Ticket>() under way: the first pending operation has written
\* the Team and the Project, the second has just been started
C15_Witness ==
    /\ call.op = "persist" /\ call.type = "Ticket"
    /\ [i \in 1..Len(log) |-> log[i].path] = << <<1, 1>>, <<1>> >>
    /\ \E k \in Persisting : stack[k].path = <<2>>

\* association::<D>() is about to return into the manifest that called it
AssociationReturning ==
    ManifestDone /\ Len(stack) > 1 /\ stack[Len(stack) - 1].fn = "manifest"

\* the key D::manifest gives an entity by default in the current state
DefaultKey(D) ==
    IF D = "User" THEN produce("emails", sequences["emails"].counter) ELSE 1

\* C16: each call of association() hands its caller the dependency as
\* manifested with default overrides, writes nothing to any store, and
\* leaves the caller's registry one operation longer: the operation for
\* that dependency at the end, every operation registered before still at
\* its position.
C16_AssociationAppendsOne ==
    [][ AssociationReturning =>
          LET n == Len(stack) - 1
              old == stack[n].associations
              new == stack'[n].associations
          IN  /\ Len(stack') = n
              /\ Len(new) = Len(old) + 1
              /\ SubSeq(new, 1, Len(old)) = old
              /\ new[Len(new)] = AnyAssociation(Top.type)
              /\ stack'[n].refs = Append(stack[n].refs, DefaultKey(Top.type))
              /\ conns' = conns
              /\ log' = log ]_vars

\* Board::manifest has made both of its association() calls: its registry
\* holds the Project operation, then the Team operation
C16_Witness ==
    /\ stack # <<>> /\ Top.fn = "manifest" /\ Top.type = "Board"
    /\ Top.associations = <<AnyAssociation("Project"), AnyAssociation("Team")>>
    /\ Top.refs = <<1, 1>>

\* the entity types that associate with themselves, directly or not
Cyclic == {"Node"}

RECURSIVE WritesOf(_), WritesOfEach(_)
\* the writes of a persist call of T when nothing is deduplicated and no
\* write fails: those of each pending operation T registers, then T's own
WritesOf(T) == WritesOfEach(Deps(T)) \o <<T>>
WritesOfEach(deps) ==
    IF deps = <<>> THEN <<>> ELSE WritesOf(Head(deps)) \o WritesOfEach(Tail(deps))

\* C17 as stated: the number of writes of a persist call is 1 plus the sum
\* of the writes of each pending operation it registered, a dependency type
\* registered k times being written k times.
C17_WritesOnePlusSum ==
    (Finished /\ call.op = "persist" /\ call.type \notin Cyclic) =>
        Len(log) = Len(WritesOf(call.type))

\* C17, amended: nothing is deduplicated, and a persist call stops at the
\* first write that fails. The writes a persist call attempts are those of
\* each pending operation it registered, in order, then its own, up to and
\* including the first one that fails, whether or not the store already
\* holds a row of the type; the number of writes is 1 plus the sum of the
\* writes of the registered operations exactly when no dependency's write
\* failed.
C17_NoDeduplication ==
    (call.op = "persist" /\ call.type \notin Cyclic) =>
        LET expected == WritesOf(call.type)
            n == Len(log)
        IN  /\ n <= Len(expected)
            /\ [i \in 1..n |-> log[i].type] = SubSeq(expected, 1, n)
            /\ \A i \in 1..(n - 1) : log[i].result.kind = "Ok"
            /\ stack = <<>> =>
                  /\ n >= 1
                  /\ ret.kind \in {"Ok", "Err"} <=> n = Len(expected)
                  /\ ret.kind = "Panic" <=> n < Len(expected)
                  /\ n < Len(expected) => log[n].result.kind = "Err"

\* persist::<Board>() on an empty store: Team is registered under Project
\* and by Board itself, both writes of it were attempted and the second was
\* refused by the store
C17_Witness ==
    /\ call.op = "persist" /\ call.type = "Board" /\ stack = <<>>
    /\ call.before[call.conn] = EmptyGraphTables
    /\ [i \in 1..Len(log) |-> log[i].type] = <<"Team", "Project", "Team">>
    /\ log[3].result.kind = "Err"

\* a call of manifest() or persist() is in progress
InProgress == stack # <<>>

\* the call has returned a value or a result, or has unwound with a failure
Returned == stack = <<>> /\ ret.kind \in {"Value", "Ok", "Err", "Panic"}

\* C20: a call of manifest() or persist() for an entity type of a finite
\* acyclic graph terminates: every manifest registers at most as many
\* pending operations as its type has associations, and the call eventually
\* returns the root's result or fails. For a type that associates with
\* itself the call never returns: association() manifests the dependency at
\* once, so every step of the call only deepens the recursion.
C20_AcyclicTerminates ==
    /\ [](\A k \in 1..Len(stack) :
            Len(stack[k].associations) + Len(stack[k].todo) <= Len(Deps(stack[k].type)))
    /\ (InProgress /\ call.type \notin Cyclic) ~> Returned
    /\ [](call.type \in Cyclic => InProgress /\ ret = Pending /\ log = <<>>)
    /\ [][(call.type \in Cyclic /\ InProgress) => Len(stack') = Len(stack) + 1]_vars

\* persist::<Ticket>() has returned the Ticket after the nested drains of
\* Project (with Team) and Label
C20_Witness ==
    /\ call.op = "persist" /\ call.type = "Ticket"
    /\ Returned /\ ret.kind = "Ok" /\ ret.value.type = "Ticket"
    /\ Len(log) = Len(WritesOf("Ticket"))

====
